---- MODULE Spec2Model ----
(***************************************************************************)
(* Model of the decimal arithmetic of package bcd (src/bcd.go).            *)
(*                                                                         *)
(* A BCD value is the record [digits, scale, negative] of the Go struct.   *)
(* digits is little-endian: digits[1] here is digits[0] in the source.     *)
(* Every method of the source is an operator computed the way the source   *)
(* computes it; the actions apply the methods to two operand registers a   *)
(* and b and record what they return.                                      *)
(***************************************************************************)
EXTENDS Integers, Sequences, FiniteSets, TLC

VARIABLES a, b, c, op, res, cmp, err, places, mode, fed, total, exact, n, i64, str, out, heap,
          flt, ratios, parts

vars == <<a, b, c, op, res, cmp, err, places, mode, fed, total, exact, n, i64, str, out, heap,
          flt, ratios, parts>>

(***************************************************************************)
(* Bounds of the model.                                                    *)
(***************************************************************************)
\* longest digit sequence of a result that is fed back as an operand
MaxDigits == 2
\* largest scale of a result that is fed back as an operand
MaxScale == 2
\* largest scale / number of places handed to Div
MaxPlaces == 2
\* number of Add/Sub calls of the running sum
MaxSum == 2

\* the longest fractional part of a value handed to Round
MaxFrac == 3

\* the longest string handed to New
MaxLen == 4

\* a float handed to New is mantissa / 2^exponent with these at most
MaxMantissa == 15
MaxExponent == 3

\* the largest ratio and the longest ratio list handed to Allocate
MaxRatio == 2
MaxParts == 3

\* the loop count of TestBCDPrecisionMaintenance
PennyCount == 100

\* an int64 is held as four 16-bit words, least significant first
Word == 65536

\* longDivision divides natively when both operands have at most this many digits
NativeDigits == 15

(***************************************************************************)
(* Errors and rounding modes.                                              *)
(***************************************************************************)
ErrDivisionByZero == "division by zero"
ErrInvalidFormat == "invalid decimal format"
ErrOverflow == "numeric overflow"
ErrInvalidAmount == "invalid amount"

RoundDown == "RoundDown"
RoundUp == "RoundUp"
RoundHalfUp == "RoundHalfUp"
RoundHalfDown == "RoundHalfDown"
RoundHalfEven == "RoundHalfEven"
RoundCeiling == "RoundCeiling"
RoundFloor == "RoundFloor"

RoundingMode ==
  {RoundDown, RoundUp, RoundHalfUp, RoundHalfDown, RoundHalfEven, RoundCeiling, RoundFloor}

\* the nil *BCD returned next to an error
Nil == [nil |-> TRUE]

\* a (value, error) pair as the source returns it
Ok(v) == [val |-> v, err |-> ""]
Fail(e) == [val |-> Nil, err |-> e]

(***************************************************************************)
(* Helpers on digit sequences.                                             *)
(***************************************************************************)
\* uint8 arithmetic
U8(x) == x % 256

\* make([]uint8, k)
RECURSIVE zeros(_)
zeros(k) == IF k <= 0 THEN <<>> ELSE Append(zeros(k - 1), 0)

BCD(d, s, neg) == [digits |-> d, scale |-> s, negative |-> neg]

Zero == BCD(<<0>>, 0, FALSE)

isZero(digits) == \A i \in 1..Len(digits) : digits[i] = 0

\* for len(d) > 1 && d[len(d)-1] == 0 { d = d[:len(d)-1] }
RECURSIVE removeLeadingZeros(_)
removeLeadingZeros(d) ==
  IF Len(d) > 1 /\ d[Len(d)] = 0
  THEN removeLeadingZeros(SubSeq(d, 1, Len(d) - 1))
  ELSE d

\* a copy that loses the sign
CopyDropsSign(x) == BCD(x.digits, x.scale, FALSE)

Copy(x) == BCD(x.digits, x.scale, x.negative)

IsZero(x) == isZero(x.digits)

IsNegative(x) == x.negative /\ ~IsZero(x)

IsPositive(x) == ~x.negative /\ ~IsZero(x)

(***************************************************************************)
(* Strings are sequences of one-character strings.                         *)
(***************************************************************************)
DigitChars == <<"0", "1", "2", "3", "4", "5", "6", "7", "8", "9">>

\* d + '0'
DigitChar(d) == DigitChars[d + 1]

IsDigitChar(ch) == \E i \in 1..10 : DigitChars[i] = ch

\* ch - '0'
CharDigit(ch) == (CHOOSE i \in 1..10 : DigitChars[i] = ch) - 1

\* a trim of the leading spaces only
RECURSIVE TrimSpaceLeft(_)
TrimSpaceLeft(s) == IF s # <<>> /\ Head(s) = " " THEN TrimSpaceLeft(Tail(s)) ELSE s

\* strings.TrimSpace
RECURSIVE TrimSpace(_)
TrimSpace(s) ==
  IF s # <<>> /\ Head(s) = " " THEN TrimSpace(Tail(s))
  ELSE IF s # <<>> /\ s[Len(s)] = " " THEN TrimSpace(SubSeq(s, 1, Len(s) - 1))
  ELSE s

\* strings.TrimLeft(s, "0")
RECURSIVE TrimLeft0(_)
TrimLeft0(s) == IF s # <<>> /\ Head(s) = "0" THEN TrimLeft0(Tail(s)) ELSE s

\* strings.TrimRight(s, "0")
RECURSIVE TrimRight0(_)
TrimRight0(s) ==
  IF s # <<>> /\ s[Len(s)] = "0" THEN TrimRight0(SubSeq(s, 1, Len(s) - 1)) ELSE s

\* positions of the decimal points of s
Dots(s) == {i \in 1..Len(s) : s[i] = "."}

\* s read from its last element to its first
RECURSIVE Reverse(_)
Reverse(s) == IF s = <<>> THEN <<>> ELSE Append(Reverse(Tail(s)), Head(s))

\* digits[i] = uint8(allDigits[i] - '0')
RECURSIVE charDigits(_)
charDigits(s) == IF s = <<>> THEN <<>> ELSE <<CharDigit(Head(s))>> \o charDigits(Tail(s))

\* sb.WriteByte(d + '0') for each digit of d, in order
RECURSIVE digitChars(_)
digitChars(d) == IF d = <<>> THEN <<>> ELSE <<DigitChar(Head(d))>> \o digitChars(Tail(d))

\* no padding at all
noChars(k) == <<>>

\* sb.WriteByte('0') k times
RECURSIVE zeroChars(_)
zeroChars(k) == IF k <= 0 THEN <<>> ELSE Append(zeroChars(k - 1), "0")

\* parseString without the exponent branch: no input of the model holds e or E
parseString(text) ==
  LET s0 == TrimSpace(text)
      negative == s0 # <<>> /\ Head(s0) = "-"
      s == IF s0 # <<>> /\ Head(s0) \in {"-", "+"} THEN Tail(s0) ELSE s0
      dot == IF Dots(s) = {} THEN Len(s) + 1 ELSE CHOOSE i \in Dots(s) : TRUE
      part0 == SubSeq(s, 1, dot - 1)
      part1 == SubSeq(s, dot + 1, Len(s))
      intPart == IF TrimLeft0(part0) = <<>> THEN <<"0">> ELSE TrimLeft0(part0)
      decPart == IF Dots(s) # {} THEN TrimRight0(part1) ELSE <<>>
      scale == Len(decPart)
      allDigits == intPart \o decPart
      digits == removeLeadingZeros(Reverse(charDigits(allDigits)))
  IN  IF s0 = <<>> THEN Ok(Zero)
      ELSE IF Cardinality(Dots(s)) > 1 THEN Fail(ErrInvalidFormat)
      ELSE IF \E i \in 1..Len(allDigits) : ~IsDigitChar(allDigits[i]) THEN Fail(ErrInvalidFormat)
      ELSE IF allDigits = <<"0">> THEN Ok(Zero)
      ELSE Ok(BCD(digits, scale, negative /\ ~isZero(digits)))

\* BCD.String
String(x) ==
  LET len == Len(x.digits)
      intDigits == len - x.scale
      sign == IF x.negative THEN <<"-">> ELSE <<>>
      all == digitChars(Reverse(x.digits))
  IN  IF len = 0 \/ (len = 1 /\ x.digits[1] = 0) THEN <<"0">>
      ELSE IF intDigits <= 0
      THEN sign \o <<"0", ".">> \o zeroChars(-intDigits) \o all
      ELSE sign \o SubSeq(all, 1, intDigits)
                \o (IF x.scale > 0 THEN <<".">> \o SubSeq(all, intDigits + 1, len) ELSE <<>>)

(***************************************************************************)
(* Negation, normalisation.                                                *)
(***************************************************************************)
Abs(x) == BCD(x.digits, x.scale, FALSE)

Neg(x) == IF IsZero(x) THEN Copy(x) ELSE BCD(x.digits, x.scale, ~x.negative)

\* number of i < scale, i < len(digits) with digits[0..i] all zero
trailingZeros(x) ==
  Cardinality({i \in 1..Len(x.digits) :
                 i <= x.scale /\ \A j \in 1..i : x.digits[j] = 0})

Normalize(x) ==
  LET tz == trailingZeros(x)
      d == SubSeq(x.digits, tz + 1, Len(x.digits))
      s == x.scale - tz
  IN  IF x.scale = 0 \/ IsZero(x) THEN Copy(x)
      ELSE IF tz = 0 THEN Copy(x)
      ELSE IF s = 0 \/ Len(d) = 0
           THEN BCD(IF Len(d) = 0 THEN <<0>> ELSE d, 0, x.negative)
           ELSE BCD(d, s, x.negative)

(***************************************************************************)
(* Alignment and comparison.                                               *)
(***************************************************************************)
\* the pair (aCopy, bCopy): the operand of the smaller scale gets zeros at
\* its least-significant end; nothing is done at the most-significant end
alignDecimals(x, y) ==
  IF x.scale = y.scale THEN <<Copy(x), Copy(y)>>
  ELSE IF x.scale < y.scale
       THEN <<BCD(zeros(y.scale - x.scale) \o x.digits, y.scale, x.negative), Copy(y)>>
       ELSE <<Copy(x), BCD(zeros(x.scale - y.scale) \o y.digits, x.scale, y.negative)>>

\* the loop of compareMagnitudes from the most significant digit down
RECURSIVE compareDigits(_, _, _)
compareDigits(d1, d2, i) ==
  IF i < 1 THEN 0
  ELSE IF d1[i] > d2[i] THEN 1
  ELSE IF d1[i] < d2[i] THEN -1
  ELSE compareDigits(d1, d2, i - 1)

compareMagnitudes(x, y) ==
  LET al == alignDecimals(x, y)
      d1 == al[1].digits
      d2 == al[2].digits
  IN  IF Len(d1) > Len(d2) THEN 1
      ELSE IF Len(d1) < Len(d2) THEN -1
      ELSE compareDigits(d1, d2, Len(d1))

Cmp(x, y) ==
  IF x.negative /\ ~y.negative THEN -1
  ELSE IF ~x.negative /\ y.negative THEN 1
  ELSE IF x.negative THEN -compareMagnitudes(x, y)
  ELSE compareMagnitudes(x, y)

Equal(x, y) == Cmp(x, y) = 0

LessThan(x, y) == Cmp(x, y) < 0

LessOrEqual(x, y) == Cmp(x, y) <= 0

GreaterThan(x, y) == Cmp(x, y) > 0

GreaterOrEqual(x, y) == Cmp(x, y) >= 0

(***************************************************************************)
(* Addition and subtraction.                                               *)
(***************************************************************************)
Max(i, j) == IF i > j THEN i ELSE j

\* the loop of addMagnitudes: for i := 0; i < maxLen || carry > 0; i++
RECURSIVE addLoop(_, _, _, _, _, _)
addLoop(result, d1, d2, i, carry, maxLen) ==
  IF ~(i <= maxLen \/ carry > 0) THEN result
  ELSE LET sum == U8(carry + (IF i <= Len(d1) THEN d1[i] ELSE 0)
                           + (IF i <= Len(d2) THEN d2[i] ELSE 0))
       IN  addLoop([result EXCEPT ![i] = sum % 10], d1, d2, i + 1, sum \div 10, maxLen)

\* the result carries no sign: the caller sets it
addMagnitudes(x, y) ==
  LET maxLen == Max(Len(y.digits), Len(x.digits))
  IN  BCD(removeLeadingZeros(addLoop(zeros(maxLen + 1), x.digits, y.digits, 1, 0, maxLen)),
          x.scale, FALSE)

\* the loop of subtractMagnitudes; the last borrow is dropped
RECURSIVE subLoop(_, _, _, _, _)
subLoop(result, d1, d2, i, borrow) ==
  IF i > Len(d1) THEN result
  ELSE LET diff == d1[i] - borrow - (IF i <= Len(d2) THEN d2[i] ELSE 0)
       IN  IF diff < 0
           THEN subLoop([result EXCEPT ![i] = diff + 10], d1, d2, i + 1, 1)
           ELSE subLoop([result EXCEPT ![i] = diff], d1, d2, i + 1, 0)

subtractMagnitudes(x, y) ==
  BCD(removeLeadingZeros(subLoop(zeros(Len(x.digits)), x.digits, y.digits, 1, 0)),
      x.scale, FALSE)

\* Add with the sign of the difference always taken from the receiver
AddReceiverSign(x, y) ==
  LET al == alignDecimals(x, y)
      c0 == compareMagnitudes(x, y)
  IN  IF x.negative = y.negative
      THEN [addMagnitudes(al[1], al[2]) EXCEPT !.negative = x.negative]
      ELSE IF c0 = 0 THEN Zero
      ELSE IF c0 > 0
           THEN [subtractMagnitudes(al[1], al[2]) EXCEPT !.negative = x.negative]
           ELSE [subtractMagnitudes(al[2], al[1]) EXCEPT !.negative = x.negative]

Add(x, y) ==
  LET al == alignDecimals(x, y)
      c0 == compareMagnitudes(x, y)
  IN  IF x.negative = y.negative
      THEN [addMagnitudes(al[1], al[2]) EXCEPT !.negative = x.negative]
      ELSE IF c0 = 0 THEN Zero
      ELSE IF c0 > 0
           THEN [subtractMagnitudes(al[1], al[2]) EXCEPT !.negative = x.negative]
           ELSE [subtractMagnitudes(al[2], al[1]) EXCEPT !.negative = y.negative]

Sub(x, y) == Add(x, Neg(y))

(***************************************************************************)
(* Multiplication.                                                         *)
(***************************************************************************)
\* the inner loop of Mul over the digits of other, then the row's carry
RECURSIVE mulInner(_, _, _, _, _, _)
mulInner(result, d1, d2, i, j, carry) ==
  IF j > Len(d2)
  THEN IF carry > 0 THEN [result EXCEPT ![i + Len(d2)] = carry] ELSE result
  ELSE LET prod == U8(d1[i] * d2[j] + result[i + j - 1] + carry)
       IN  mulInner([result EXCEPT ![i + j - 1] = prod % 10], d1, d2, i, j + 1, prod \div 10)

\* the outer loop of Mul over the digits of the receiver
RECURSIVE mulOuter(_, _, _, _)
mulOuter(result, d1, d2, i) ==
  IF i > Len(d1) THEN result
  ELSE mulOuter(mulInner(result, d1, d2, i, 1, 0), d1, d2, i + 1)

\* Mul that forgets the scale of its argument
MulReceiverScale(x, y) ==
  IF IsZero(x) \/ IsZero(y) THEN Zero
  ELSE BCD(removeLeadingZeros(mulOuter(zeros(Len(x.digits) + Len(y.digits)),
                                       x.digits, y.digits, 1)),
           x.scale, x.negative # y.negative)

Mul(x, y) ==
  IF IsZero(x) \/ IsZero(y) THEN Zero
  ELSE BCD(removeLeadingZeros(mulOuter(zeros(Len(x.digits) + Len(y.digits)),
                                       x.digits, y.digits, 1)),
           x.scale + y.scale, x.negative # y.negative)

(***************************************************************************)
(* Rounding.                                                               *)
(***************************************************************************)
shouldRoundUp(digit, nextDigit, isEven, m, negative) ==
  CASE m = RoundDown -> FALSE
    [] m = RoundUp -> digit > 0 \/ nextDigit > 0
    [] m = RoundHalfUp -> digit >= 5
    [] m = RoundHalfDown -> digit > 5 \/ (digit = 5 /\ nextDigit > 0)
    [] m = RoundHalfEven ->
         IF digit > 5 \/ (digit = 5 /\ nextDigit > 0) THEN TRUE
         ELSE IF digit = 5 /\ nextDigit = 0 THEN ~isEven
         ELSE FALSE
    [] m = RoundCeiling -> IF negative THEN FALSE ELSE digit > 0 \/ nextDigit > 0
    [] m = RoundFloor -> IF ~negative THEN FALSE ELSE digit > 0 \/ nextDigit > 0
    [] OTHER -> FALSE

\* the carry loop of Round: add 1 to the kept digits
RECURSIVE addOneLoop(_, _, _)
addOneLoop(d, i, carry) ==
  IF ~(i <= Len(d) /\ carry > 0)
  THEN IF carry > 0 THEN Append(d, carry) ELSE d
  ELSE LET sum == U8(d[i] + carry)
       IN  addOneLoop([d EXCEPT ![i] = sum % 10], i + 1, sum \div 10)

\* for len(d) > 1 && d[0] == 0 { d = d[1:] }
RECURSIVE dropLowZeros(_)
dropLowZeros(d) == IF Len(d) > 1 /\ d[1] = 0 THEN dropLowZeros(Tail(d)) ELSE d

Round(x, places0, m) ==
  LET pl == IF places0 < 0 THEN 0 ELSE places0
      len == Len(x.digits)
      removeCount == x.scale - pl
      kept == SubSeq(x.digits, removeCount + 1, len)
      roundDigit == x.digits[removeCount]
      nextDigit == IF removeCount >= 2 THEN x.digits[removeCount - 1] ELSE 0
      isEven == kept[1] % 2 = 0
      rounded == IF shouldRoundUp(roundDigit, nextDigit, isEven, m, x.negative)
                 THEN addOneLoop(kept, 1, 1)
                 ELSE kept
      newDigits == IF pl = 0 THEN dropLowZeros(rounded) ELSE rounded
  IN  IF x.scale <= pl THEN Copy(x)
      ELSE IF removeCount >= len
           THEN IF IsZero(x) THEN Zero
                ELSE IF shouldRoundUp(x.digits[len], 0, FALSE, m, x.negative)
                     THEN IF pl = 0 THEN BCD(<<1>>, 0, x.negative)
                          ELSE BCD(Append(zeros(pl - 1), 1), pl, x.negative)
                     ELSE Zero
           ELSE BCD(newDigits, pl, x.negative)

(***************************************************************************)
(* Division.                                                               *)
(***************************************************************************)
\* the integer a digit sequence stands for
RECURSIVE digitsValue(_)
digitsValue(d) == IF d = <<>> THEN 0 ELSE Head(d) + 10 * digitsValue(Tail(d))

\* for v > 0 { digits = append(digits, v % 10); v /= 10 }
RECURSIVE valueDigits(_)
valueDigits(v) == IF v > 0 THEN <<v % 10>> \o valueDigits(v \div 10) ELSE <<>>

\* the loop of multiplyByDigit: result[i] = prod % 10, carry = prod / 10,
\* and the last carry, if any, on top
RECURSIVE mulDigitLoop(_, _, _, _, _)
mulDigitLoop(result, d, digit, i, carry) ==
  IF i > Len(d) THEN IF carry > 0 THEN Append(result, carry) ELSE result
  ELSE LET prod == U8(d[i] * digit + carry)
       IN  mulDigitLoop(Append(result, prod % 10), d, digit, i + 1, prod \div 10)

multiplyByDigit(x, digit) ==
  IF digit = 0 THEN Zero
  ELSE BCD(mulDigitLoop(<<>>, x.digits, digit, 1, 0), x.scale, FALSE)

\* the loop of divideBySmallInt from the most significant digit down:
\* <<quotient digits, remainder>>
RECURSIVE smallLoop(_, _, _, _, _)
smallLoop(q, d, divisor, i, remainder) ==
  IF i < 1 THEN <<q, remainder>>
  ELSE LET dividend == remainder * 10 + d[i]
       IN  smallLoop([q EXCEPT ![i] = dividend \div divisor], d, divisor, i - 1,
                     dividend % divisor)

divideBySmallInt(x, divisor) ==
  LET r == smallLoop(zeros(Len(x.digits)), x.digits, divisor, Len(x.digits), 0)
  IN  <<BCD(removeLeadingZeros(r[1]), 0, FALSE), BCD(<<r[2]>>, 0, FALSE)>>

\* the inner loop of the fallback: the largest multiplier in 1..9 whose
\* product with the divisor does not exceed the remainder (1 if there is none)
RECURSIVE findMultiplier(_, _, _)
findMultiplier(divisor, remainder, multiplier) ==
  IF multiplier < 9
     /\ compareMagnitudes(multiplyByDigit(divisor, multiplier + 1), remainder) <= 0
  THEN findMultiplier(divisor, remainder, multiplier + 1)
  ELSE multiplier

\* the outer loop of the fallback: one multiplier per subtraction, each
\* prepended to quotientDigits: <<quotientDigits, remainder>>
RECURSIVE fallbackLoop(_, _, _)
fallbackLoop(quotientDigits, remainder, divisor) ==
  IF compareMagnitudes(remainder, divisor) >= 0
  THEN LET multiplier == findMultiplier(divisor, remainder, 1)
           testProduct == IF multiplier = 1 THEN Copy(divisor)
                          ELSE multiplyByDigit(divisor, multiplier)
       IN  fallbackLoop(<<multiplier>> \o quotientDigits,
                        subtractMagnitudes(remainder, testProduct), divisor)
  ELSE <<quotientDigits, remainder>>

longDivision(dividend, divisor) ==
  LET dividendValue == digitsValue(dividend.digits)
      divisorValue == digitsValue(divisor.digits)
      quotientValue == dividendValue \div divisorValue
      remainderValue == dividendValue % divisorValue
      fb == fallbackLoop(<<>>, Copy(dividend), divisor)
  IN  IF compareMagnitudes(dividend, divisor) < 0 THEN <<Zero, Copy(dividend)>>
      ELSE IF Len(divisor.digits) <= NativeDigits /\ Len(dividend.digits) <= NativeDigits
           THEN <<BCD(IF quotientValue > 0 THEN valueDigits(quotientValue) ELSE <<0>>, 0, FALSE),
                  BCD(IF remainderValue > 0 THEN valueDigits(remainderValue) ELSE <<0>>, 0, FALSE)>>
           ELSE <<BCD(IF fb[1] = <<>> THEN <<0>> ELSE Reverse(fb[1]), 0, FALSE), fb[2]>>

divideIntegers(x, y) ==
  IF Len(y.digits) = 1 THEN divideBySmallInt(x, y.digits[1]) ELSE longDivision(x, y)

\* <<quotient, remainder>>; the callers have excluded a zero divisor
divideWithRemainder(x, y, targetScale) ==
  LET extraZeros == targetScale + y.scale
      dividend == BCD(IF extraZeros > 0 THEN zeros(extraZeros) \o x.digits ELSE x.digits,
                      0, x.negative)
      divisor == BCD(y.digits, 0, y.negative)
      qr == divideIntegers(dividend, divisor)
  IN  <<[qr[1] EXCEPT !.scale = targetScale + x.scale], qr[2]>>

\* Div that tests the dividend before the divisor
DivDividendFirst(x, y, scale, m) ==
  IF IsZero(x) THEN Ok(Zero)
  ELSE IF IsZero(y) THEN Fail(ErrDivisionByZero)
  ELSE Ok(Round([divideWithRemainder(x, y, scale + 1)[1]
                   EXCEPT !.negative = x.negative # y.negative], scale, m))

Div(x, y, scale, m) ==
  IF IsZero(y) THEN Fail(ErrDivisionByZero)
  ELSE IF IsZero(x) THEN Ok(Zero)
  ELSE Ok(Round([divideWithRemainder(x, y, scale + 1)[1]
                   EXCEPT !.negative = x.negative # y.negative], scale, m))

DivInt(x, y) ==
  LET q == [divideWithRemainder(x, y, 0)[1] EXCEPT !.negative = x.negative # y.negative]
  IN  IF IsZero(y) THEN Fail(ErrDivisionByZero)
      ELSE IF IsZero(x) THEN Ok(Zero)
      ELSE IF q.scale > 0
           THEN IF q.scale >= Len(q.digits) THEN Ok(Zero)
                ELSE Ok(BCD(SubSeq(q.digits, q.scale + 1, Len(q.digits)), 0, q.negative))
           ELSE Ok(q)

Mod(x, y) ==
  IF IsZero(y) THEN Fail(ErrDivisionByZero)
  ELSE IF IsZero(x) THEN Ok(Zero)
  ELSE Ok([divideWithRemainder(x, y, 0)[2] EXCEPT !.negative = x.negative])

(***************************************************************************)
(* int64 and uint64 arithmetic: two's complement on four 16-bit words,     *)
(* wrapping modulo 2^64 as Go's does.                                      *)
(***************************************************************************)
\* the int64 of a small non-negative integer
Int64(k) == <<k % Word, k \div Word, 0, 0>>

MaxInt64 == <<Word - 1, Word - 1, Word - 1, (Word \div 2) - 1>>

MinInt64 == <<0, 0, 0, Word \div 2>>

\* u + v + carry modulo 2^64, from word i up
RECURSIVE addWords(_, _, _, _)
addWords(u, v, i, carry) ==
  IF i > 4 THEN <<>>
  ELSE LET sum == u[i] + v[i] + carry
       IN  <<sum % Word>> \o addWords(u, v, i + 1, sum \div Word)

Add64(u, v) == addWords(u, v, 1, 0)

\* v * k modulo 2^64 for a small k
RECURSIVE mulWords(_, _, _, _)
mulWords(v, k, i, carry) ==
  IF i > 4 THEN <<>>
  ELSE LET prod == v[i] * k + carry
       IN  <<prod % Word>> \o mulWords(v, k, i + 1, prod \div Word)

Mul64(v, k) == mulWords(v, k, 1, 0)

\* -v: the complement plus one, so that -MinInt64 = MinInt64
Neg64(v) ==
  Add64(<<Word - 1 - v[1], Word - 1 - v[2], Word - 1 - v[3], Word - 1 - v[4]>>, Int64(1))

IsNeg64(v) == v[4] >= Word \div 2

IsZero64(v) == v = Int64(0)

\* u < v as unsigned integers, comparing from the top word
RECURSIVE ltWords(_, _, _)
ltWords(u, v, i) ==
  IF i < 1 THEN FALSE
  ELSE IF u[i] # v[i] THEN u[i] < v[i]
  ELSE ltWords(u, v, i - 1)

\* u < v as signed integers
Lt64(u, v) ==
  IF IsNeg64(u) # IsNeg64(v) THEN IsNeg64(u) ELSE ltWords(u, v, 4)

\* <<v / k, v % k>> for an unsigned v and a small k, from the top word down
RECURSIVE divWords(_, _, _, _, _)
divWords(v, k, i, rem, q) ==
  IF i < 1 THEN <<q, rem>>
  ELSE LET cur == rem * Word + v[i]
       IN  divWords(v, k, i - 1, cur % k, <<cur \div k>> \o q)

Div64(v, k) == divWords(v, k, 4, 0, <<>>)[1]

Mod64(v, k) == divWords(v, k, 4, 0, <<>>)[2]

(***************************************************************************)
(* Conversion from and to integers.                                        *)
(***************************************************************************)
\* for n > 0 { digits = append(digits, uint8(n % 10)); n /= 10 }
RECURSIVE int64Digits(_)
int64Digits(v) ==
  IF ~IsNeg64(v) /\ ~IsZero64(v) THEN <<Mod64(v, 10)>> \o int64Digits(Div64(v, 10)) ELSE <<>>

fromInt64(v) ==
  IF IsZero64(v) THEN Zero
  ELSE BCD(int64Digits(IF IsNeg64(v) THEN Neg64(v) ELSE v), 0, IsNeg64(v))

\* New of a signed integer (any width, converted to int64) or of an unsigned
\* one, whose 64 bits are those of v
NewInt(v, unsigned) ==
  IF unsigned /\ IsNeg64(v) THEN Fail(ErrOverflow) ELSE Ok(fromInt64(v))

\* an int64 result or an error
OkInt(v) == [val |-> v, err |-> ""]

FailInt(e) == [val |-> Int64(0), err |-> e]

\* the loop of ToInt64 over rounded.digits[i..]
RECURSIVE toInt64Loop(_, _, _, _)
toInt64Loop(digits, i, result, multiplier) ==
  IF i > Len(digits) THEN OkInt(result)
  ELSE LET digitValue == Mul64(multiplier, digits[i])
           newResult == Add64(result, digitValue)
       IN  IF Lt64(Div64(MaxInt64, 10), multiplier) THEN FailInt(ErrOverflow)
           ELSE IF \/ (Lt64(Int64(0), result) /\ Lt64(newResult, result))
                   \/ (Lt64(result, Int64(0)) /\ Lt64(result, newResult))
                THEN FailInt(ErrOverflow)
           ELSE toInt64Loop(digits, i + 1, newResult, Mul64(multiplier, 10))

ToInt64(x) ==
  LET rounded == Round(x, 0, RoundDown)
      r == toInt64Loop(rounded.digits, 1, Int64(0), Int64(1))
  IN  IF IsZero(rounded) THEN OkInt(Int64(0))
      ELSE IF r.err # "" THEN r
      ELSE IF x.negative
           THEN IF Lt64(Int64(0), Neg64(r.val)) THEN FailInt(ErrOverflow)
                ELSE OkInt(Neg64(r.val))
           ELSE r

(***************************************************************************)
(* The exact value of a BCD, for stating what the operations should        *)
(* return: x stands for Num(x) / 10^x.scale.                               *)
(***************************************************************************)
RECURSIVE Pow10(_)
Pow10(k) == IF k <= 0 THEN 1 ELSE 10 * Pow10(k - 1)

Num(x) == (IF x.negative THEN -1 ELSE 1) * digitsValue(x.digits)

Sign(i) == IF i < 0 THEN -1 ELSE IF i > 0 THEN 1 ELSE 0

\* -1, 0 or 1 as the value of x is below, equal to or above the value of y
ExactCmp(x, y) == Sign(Num(x) * Pow10(y.scale) - Num(y) * Pow10(x.scale))

\* the canonical zero
IsCanonicalZero(x) == x = BCD(<<0>>, 0, FALSE)

(***************************************************************************)
(* Inputs: the strings handed to New, and the values it returns for them.  *)
(***************************************************************************)
Signs == {<<>>, <<"-">>}

IntParts == {<<>>, <<"0">>, <<"1">>, <<"5">>}

FracParts == {<<>>, <<".">>, <<".", "5">>, <<".", "0", "5">>, <<".", "5", "0">>}

InputStrings == {s \o i \o f : s \in Signs, i \in IntParts, f \in FracParts}

Inputs == {parseString(s).val : s \in {t \in InputStrings : parseString(t).err = ""}}

\* the operands of the running sum
SumStrings == {<<"0", ".", "1">>, <<"0", ".", "2">>, <<"0", ".", "0", "1">>,
               <<"-", "0", ".", "5">>, <<"1">>, <<"-", "1", ".", "5">>}

SumInputs == {parseString(s).val : s \in SumStrings}

penny == parseString(<<"0", ".", "0", "1">>).val

\* the value of x in units of 10^-MaxScale
Units(x) == Num(x) * Pow10(MaxScale - x.scale)

(***************************************************************************)
(* New of a float64.  A finite float64 is the dyadic rational              *)
(* (-1)^negative * mantissa / 2^exponent; NaN and the infinities are not   *)
(* finite.                                                                 *)
(***************************************************************************)
RECURSIVE Pow5(_)
Pow5(k) == IF k <= 0 THEN 1 ELSE 5 * Pow5(k - 1)

\* fmt.Sprintf("%.<scale>f", f): the exact decimal expansion of f, which is
\* mantissa * 5^exponent in units of 10^-exponent, correctly rounded to scale
\* fractional digits, a tie going to the even neighbour; a sign for a
\* negative f, at least one integer digit, a point if scale > 0
formatFloat(f, scale) ==
  LET units == f.mantissa * Pow5(f.exponent)
      cut == Pow10(f.exponent - scale)
      q == units \div cut
      r == units % cut
      rounded == IF f.exponent <= scale THEN units * Pow10(scale - f.exponent)
                 ELSE IF 2 * r > cut \/ (2 * r = cut /\ q % 2 = 1) THEN q + 1
                 ELSE q
      d == valueDigits(rounded)
      chars == Reverse(digitChars(d \o zeros(scale + 1 - Len(d))))
      intChars == [i \in 1..(Len(chars) - scale) |-> chars[i]]
      decChars == [i \in 1..scale |-> chars[Len(chars) - scale + i]]
  IN  (IF f.negative THEN <<"-">> ELSE <<>>) \o intChars
        \o (IF scale > 0 THEN <<".">> \o decChars ELSE <<>>)

fromFloat64(f, scale) ==
  IF ~f.finite THEN Fail(ErrInvalidFormat) ELSE parseString(formatFloat(f, scale))

\* New(value, WithScale(scale), WithRounding(m)) of a float32 or float64
\* value: the rounding mode is stored in the options and not passed on
NewFloat(f, scale, m) == fromFloat64(f, scale)

(***************************************************************************)
(* Storage.  A *BCD points at a struct; the struct's digits field is a     *)
(* slice of a backing array.  heap.objs holds the structs (a pointer is an *)
(* index, 0 is nil), heap.arrs the backing arrays.  The operators below    *)
(* are the public operations with their allocations, slice expressions and *)
(* field assignments; the contents of a freshly made array are those the   *)
(* operators above compute.                                                *)
(***************************************************************************)
EmptyHeap == [objs |-> <<>>, arrs |-> <<>>]

\* s[k:]
RECURSIVE sliceFrom(_, _)
sliceFrom(s, k) == IF k <= 0 \/ s = <<>> THEN s ELSE sliceFrom(Tail(s), k - 1)

\* p.digits
digitsAt(h, p) == sliceFrom(h.arrs[h.objs[p].arr], h.objs[p].off)

\* *p
valueAt(h, p) == BCD(digitsAt(h, p), h.objs[p].scale, h.objs[p].negative)

\* &BCD{digits: d, scale: s, negative: neg} with d an array made by the caller
newBCD(h, x) ==
  [h |-> [objs |-> Append(h.objs, [arr |-> Len(h.arrs) + 1, off |-> 0,
                                   scale |-> x.scale, negative |-> x.negative]),
          arrs |-> Append(h.arrs, x.digits)],
   p |-> Len(h.objs) + 1]

\* p.digits = d with d a new array (the result of append on a full slice)
setDigits(h, p, d) ==
  [objs |-> [h.objs EXCEPT ![p].arr = Len(h.arrs) + 1, ![p].off = 0],
   arrs |-> Append(h.arrs, d)]

ZeroAt(h) == newBCD(h, Zero)

\* a copy that is a new struct over the same backing array
CopyShallow(h, p) == [h |-> [h EXCEPT !.objs = Append(@, h.objs[p])], p |-> Len(h.objs) + 1]

\* make, copy, &BCD{...}
CopyAt(h, p) == newBCD(h, Copy(valueAt(h, p)))

AbsAt(h, p) ==
  LET cc == CopyAt(h, p)
  IN  [h |-> [cc.h EXCEPT !.objs[cc.p].negative = FALSE], p |-> cc.p]

NegAt(h, p) ==
  LET cc == CopyAt(h, p)
  IN  IF IsZero(valueAt(h, p)) THEN cc
      ELSE [h |-> [cc.h EXCEPT !.objs[cc.p].negative = ~@], p |-> cc.p]

NormalizeAt(h, p) ==
  LET x == valueAt(h, p)
      cc == CopyAt(h, p)
      tz == trailingZeros(valueAt(cc.h, cc.p))
      \* c.digits = c.digits[trailingZeros:]; c.scale -= trailingZeros
      sliced == [cc.h EXCEPT !.objs[cc.p].off = @ + tz, !.objs[cc.p].scale = @ - tz]
  IN  IF x.scale = 0 \/ IsZero(x) \/ tz = 0 THEN cc
      ELSE IF digitsAt(sliced, cc.p) = <<>>
           THEN [h |-> [setDigits(sliced, cc.p, <<0>>) EXCEPT !.objs[cc.p].scale = 0],
                 p |-> cc.p]
           ELSE [h |-> sliced, p |-> cc.p]

\* the pointers p and q of the two aligned copies
alignDecimalsAt(h, p, q) ==
  LET x == valueAt(h, p)
      y == valueAt(h, q)
      aCopy == CopyAt(h, p)
      bCopy == CopyAt(aCopy.h, q)
      padded(r, diff, s) ==
        [setDigits(bCopy.h, r, zeros(diff) \o digitsAt(bCopy.h, r)) EXCEPT !.objs[r].scale = s]
  IN  [h |-> IF x.scale = y.scale THEN bCopy.h
             ELSE IF x.scale < y.scale THEN padded(aCopy.p, y.scale - x.scale, y.scale)
             ELSE padded(bCopy.p, x.scale - y.scale, x.scale),
       p |-> aCopy.p,
       q |-> bCopy.p]

\* compareMagnitudes aligns copies of its operands and reads them
compareMagnitudesAt(h, p, q) ==
  [h |-> alignDecimalsAt(h, p, q).h, val |-> compareMagnitudes(valueAt(h, p), valueAt(h, q))]

CmpAt(h, p, q) ==
  [h |-> IF valueAt(h, p).negative # valueAt(h, q).negative THEN h
         ELSE compareMagnitudesAt(h, p, q).h,
   p |-> 0]

\* addMagnitudes and subtractMagnitudes fill an array they make and return
\* a new struct over it
AddAt(h, p, q) ==
  LET x == valueAt(h, p)
      y == valueAt(h, q)
      al == alignDecimalsAt(h, p, q)
      sum == newBCD(al.h, addMagnitudes(valueAt(al.h, al.p), valueAt(al.h, al.q)))
      cm == compareMagnitudesAt(h, p, q)
      al2 == alignDecimalsAt(cm.h, p, q)
      diff == newBCD(al2.h, IF cm.val > 0
                            THEN subtractMagnitudes(valueAt(al2.h, al2.p), valueAt(al2.h, al2.q))
                            ELSE subtractMagnitudes(valueAt(al2.h, al2.q), valueAt(al2.h, al2.p)))
  IN  IF x.negative = y.negative
      THEN [h |-> [sum.h EXCEPT !.objs[sum.p].negative = x.negative], p |-> sum.p]
      ELSE IF cm.val = 0 THEN ZeroAt(cm.h)
      ELSE [h |-> [diff.h EXCEPT !.objs[diff.p].negative =
                                   IF cm.val > 0 THEN x.negative ELSE y.negative],
            p |-> diff.p]

SubAt(h, p, q) ==
  LET ng == NegAt(h, q)
  IN  AddAt(ng.h, p, ng.p)

MulAt(h, p, q) ==
  IF IsZero(valueAt(h, p)) \/ IsZero(valueAt(h, q)) THEN ZeroAt(h)
  ELSE newBCD(h, Mul(valueAt(h, p), valueAt(h, q)))

RoundAt(h, p, places0, m) ==
  IF valueAt(h, p).scale <= (IF places0 < 0 THEN 0 ELSE places0) THEN CopyAt(h, p)
  ELSE newBCD(h, Round(valueAt(h, p), places0, m))

\* quotient.negative = neg, or remainder.negative = neg, on the struct at r
signed(dr, r, neg) == [h |-> [dr.h EXCEPT !.objs[r].negative = neg], p |-> r]

\* the dividend (a struct at pointer dividend) gets its zeros in a new array
\* (append), and dividend and divisor (the next struct) get the scale 0
integers(h, dividend, extraZeros) ==
  [(IF extraZeros > 0
    THEN setDigits(h, dividend, zeros(extraZeros) \o digitsAt(h, dividend))
    ELSE h) EXCEPT !.objs[dividend].scale = 0, !.objs[dividend + 1].scale = 0]

\* divideIntegers returns two new structs on each of its paths
divideIntegersAt(h, qr) == newBCD(newBCD(h, qr[1]).h, qr[2])

\* the pointers p of the quotient and q of the remainder
divideWithRemainderAt(h, p, q, targetScale) ==
  [h |-> [divideIntegersAt(
            integers(CopyAt(CopyAt(h, p).h, q).h, Len(h.objs) + 1,
                     targetScale + valueAt(h, q).scale),
            divideWithRemainder(valueAt(h, p), valueAt(h, q), targetScale)).h
          EXCEPT !.objs[Len(h.objs) + 3].scale = targetScale + valueAt(h, p).scale],
   p |-> Len(h.objs) + 3,
   q |-> Len(h.objs) + 4]

DivAt(h, p, q, scale, m) ==
  IF IsZero(valueAt(h, q)) THEN [h |-> h, p |-> 0]
  ELSE IF IsZero(valueAt(h, p)) THEN ZeroAt(h)
  ELSE RoundAt(signed(divideWithRemainderAt(h, p, q, scale + 1), Len(h.objs) + 3,
                      valueAt(h, p).negative # valueAt(h, q).negative).h,
               Len(h.objs) + 3, scale, m)

\* quotient.digits = quotient.digits[quotient.scale:]; quotient.scale = 0
truncatedAt(r) ==
  IF valueAt(r.h, r.p).scale > 0
  THEN IF valueAt(r.h, r.p).scale >= Len(digitsAt(r.h, r.p)) THEN ZeroAt(r.h)
       ELSE [h |-> [r.h EXCEPT !.objs[r.p].off = @ + valueAt(r.h, r.p).scale,
                               !.objs[r.p].scale = 0],
             p |-> r.p]
  ELSE r

DivIntAt(h, p, q) ==
  IF IsZero(valueAt(h, q)) THEN [h |-> h, p |-> 0]
  ELSE IF IsZero(valueAt(h, p)) THEN ZeroAt(h)
  ELSE truncatedAt(signed(divideWithRemainderAt(h, p, q, 0), Len(h.objs) + 3,
                          valueAt(h, p).negative # valueAt(h, q).negative))

ModAt(h, p, q) ==
  IF IsZero(valueAt(h, q)) THEN [h |-> h, p |-> 0]
  ELSE IF IsZero(valueAt(h, p)) THEN ZeroAt(h)
  ELSE signed(divideWithRemainderAt(h, p, q, 0), Len(h.objs) + 4, valueAt(h, p).negative)

(***************************************************************************)
(* The state machine: two operand registers, the last call and its result. *)
(***************************************************************************)
Init ==
  /\ a \in Inputs
  /\ b \in Inputs
  /\ c = Zero
  /\ op = "New"
  /\ res = Nil
  /\ cmp = 0
  /\ err = ""
  /\ places = 0
  /\ mode = RoundDown
  /\ fed = FALSE
  /\ total = Zero
  /\ exact = 0
  /\ n = 0
  /\ i64 = Int64(0)
  /\ str = <<>>
  /\ out = <<>>
  /\ heap = EmptyHeap
  /\ flt = [negative |-> FALSE, mantissa |-> 0, exponent |-> 0, finite |-> TRUE]
  /\ ratios = <<>>
  /\ parts = <<>>

\* a call is made on fresh operands, leaves them alone and records its
\* arguments and its result
Call(name, arg, s, m, v, i, e) ==
  /\ op \in {"New", "Feed"}
  /\ op' = name
  /\ c' = arg
  /\ places' = s
  /\ mode' = m
  /\ res' = v
  /\ cmp' = i
  /\ err' = e
  /\ UNCHANGED <<a, b, fed, total, exact, n, i64, str, out, heap, flt, ratios, parts>>

DoCmp == Call("Cmp", Zero, 0, RoundDown, Nil, Cmp(a, b), "")

DoAdd == Call("Add", Zero, 0, RoundDown, Add(a, b), 0, "")

DoSub == Call("Sub", Zero, 0, RoundDown, Sub(a, b), 0, "")

\* a.Add(b).Add(v)
DoAddAdd == \E v \in Inputs : Call("AddAdd", v, 0, RoundDown, Add(Add(a, b), v), 0, "")

\* a.Sub(a)
DoSubSelf == Call("SubSelf", Zero, 0, RoundDown, Sub(a, a), 0, "")

\* a.Add(a.Neg())
DoAddNeg == Call("AddNeg", Zero, 0, RoundDown, Add(a, Neg(a)), 0, "")

DoMul == Call("Mul", Zero, 0, RoundDown, Mul(a, b), 0, "")

\* TLC's integers are 32 bits wide: the native division of longDivision is
\* evaluated on dividends of at most nine digits
Evaluable(x, y, targetScale) ==
  \/ Len(y.digits) = 1
  \/ Len(x.digits) + targetScale + y.scale <= 9
  \/ Len(x.digits) + targetScale + y.scale > NativeDigits

DoDiv ==
  \E s \in 0..MaxPlaces, m \in RoundingMode :
    /\ Evaluable(a, b, s + 1)
    /\ Call("Div", Zero, s, m, Div(a, b, s, m).val, 0, Div(a, b, s, m).err)

DoDivInt ==
  /\ Evaluable(a, b, 0)
  /\ Call("DivInt", Zero, 0, RoundDown, DivInt(a, b).val, 0, DivInt(a, b).err)

DoMod ==
  /\ Evaluable(a, b, 0)
  /\ Call("Mod", Zero, 0, RoundDown, Mod(a, b).val, 0, Mod(a, b).err)

\* the value a call returned becomes, once, the receiver or the argument of
\* the next calls
Feed ==
  /\ ~fed
  /\ res # Nil
  /\ Len(res.digits) <= MaxDigits
  /\ res.scale <= MaxScale
  /\ \/ a' = res /\ b' = b
     \/ a' = a /\ b' = res
  /\ fed' = TRUE
  /\ op' = "Feed"
  /\ c' = Zero
  /\ places' = 0
  /\ mode' = RoundDown
  /\ res' = Nil
  /\ cmp' = 0
  /\ err' = ""
  /\ UNCHANGED <<total, exact, n, i64, str, out, heap, flt, ratios, parts>>

Next ==
  \/ DoCmp
  \/ DoAdd
  \/ DoSub
  \/ DoAddAdd
  \/ DoSubSelf
  \/ DoAddNeg
  \/ DoMul
  \/ DoDiv
  \/ DoDivInt
  \/ DoMod
  \/ Feed

Spec == Init /\ [][Next]_vars

(***************************************************************************)
(* The running sum: total = total.Add(v) or total.Sub(v) from Zero().      *)
(***************************************************************************)
InitSum ==
  /\ a = Zero
  /\ b = Zero
  /\ c = Zero
  /\ op = "Zero"
  /\ res = Nil
  /\ cmp = 0
  /\ err = ""
  /\ places = 0
  /\ mode = RoundDown
  /\ fed = FALSE
  /\ total = Zero
  /\ exact = 0
  /\ n = 0
  /\ i64 = Int64(0)
  /\ str = <<>>
  /\ out = <<>>
  /\ heap = EmptyHeap
  /\ flt = [negative |-> FALSE, mantissa |-> 0, exponent |-> 0, finite |-> TRUE]
  /\ ratios = <<>>
  /\ parts = <<>>

Accumulate ==
  /\ op \in {"Zero", "Sum"}
  /\ n < MaxSum
  /\ \E v \in SumInputs, subtract \in BOOLEAN :
       /\ c' = v
       /\ total' = IF subtract THEN Sub(total, v) ELSE Add(total, v)
       /\ exact' = IF subtract THEN exact - Units(v) ELSE exact + Units(v)
  /\ n' = n + 1
  /\ op' = "Sum"
  /\ UNCHANGED <<a, b, res, cmp, err, places, mode, fed, i64, str, out, heap, flt, ratios, parts>>

\* the loop of TestBCDPrecisionMaintenance
AddPenny ==
  /\ op \in {"Zero", "Penny"}
  /\ n < PennyCount
  /\ c' = penny
  /\ total' = Add(total, penny)
  /\ exact' = exact + Units(penny)
  /\ n' = n + 1
  /\ op' = "Penny"
  /\ UNCHANGED <<a, b, res, cmp, err, places, mode, fed, i64, str, out, heap, flt, ratios, parts>>

NextSum ==
  \/ Accumulate
  \/ AddPenny

SpecSum == InitSum /\ [][NextSum]_vars

(***************************************************************************)
(* What Div should return: the exact quotient a/b rounded to s places.     *)
(***************************************************************************)
AbsInt(i) == IF i < 0 THEN -i ELSE i

\* a/b * 10^s = QuotNum / QuotDen
QuotNum(x, y, s) == AbsInt(Num(x)) * Pow10(s + y.scale)

QuotDen(x, y) == AbsInt(Num(y)) * Pow10(x.scale)

QuotNegative(x, y) == (Num(x) < 0) # (Num(y) < 0)

\* the magnitude, in units of 10^-s, of a/b rounded to s places under mode m
RoundedQuotient(x, y, s, m) ==
  LET q == QuotNum(x, y, s) \div QuotDen(x, y)
      r == QuotNum(x, y, s) % QuotDen(x, y)
      d == QuotDen(x, y)
      neg == QuotNegative(x, y)
      up == CASE m = RoundDown -> FALSE
              [] m = RoundUp -> r > 0
              [] m = RoundHalfUp -> 2 * r >= d
              [] m = RoundHalfDown -> 2 * r > d
              [] m = RoundHalfEven -> 2 * r > d \/ (2 * r = d /\ q % 2 = 1)
              [] m = RoundCeiling -> ~neg /\ r > 0
              [] m = RoundFloor -> neg /\ r > 0
  IN  IF up THEN q + 1 ELSE q

\* the quotient a/b has no digit beyond s places
Terminates(x, y, s) == QuotNum(x, y, s) % QuotDen(x, y) = 0

\* the decimal rendering of a natural number
RECURSIVE NatChars(_)
NatChars(k) == IF k < 10 THEN <<DigitChar(k)>> ELSE NatChars(k \div 10) \o <<DigitChar(k % 10)>>

\* the s fractional digits of f / 10^s
RECURSIVE FracChars(_, _)
FracChars(f, s) == IF s = 0 THEN <<>> ELSE FracChars(f \div 10, s - 1) \o <<DigitChar(f % 10)>>

\* the shortest decimal rendering of (neg ? -1 : 1) * M / 10^s
RECURSIVE ExactString(_, _, _)
ExactString(neg, M, s) ==
  IF s > 0 /\ M % 10 = 0 THEN ExactString(neg, M \div 10, s - 1)
  ELSE (IF neg /\ M # 0 THEN <<"-">> ELSE <<>>)
       \o NatChars(M \div Pow10(s))
       \o (IF s > 0 THEN <<".">> \o FracChars(M % Pow10(s), s) ELSE <<>>)

(***************************************************************************)
(* The claims.                                                             *)
(***************************************************************************)

\* C1: Cmp returns -1, 0 or 1 exactly as the value of the receiver is below,
\* equal to or above the value of its argument, whatever the scales.
C1_CmpIsNumericOrder == op = "Cmp" => cmp = ExactCmp(a, b)

\* C2: adding Zero() to a returns the value of a.
C2_AddZeroIdentity == (op = "Add" /\ b = Zero) => ExactCmp(res, a) = 0

\* C3: after every Add or Sub step from Zero() the running total is the exact
\* sum of the operands, and one hundred pennies normalise to "1".
C3_SumIsExact ==
  /\ op \in {"Sum", "Penny"} => Units(total) = exact
  /\ (op = "Penny" /\ n = PennyCount) => String(Normalize(total)) = <<"1">>

\* C4: (a + b) + c and a + (b + c) are the same value.
C4_AddAssociative == op = "AddAdd" => ExactCmp(res, Add(a, Add(b, c))) = 0

\* C5: Add and Mul return the same value whichever operand is the receiver.
C5_Commutative ==
  /\ op = "Add" => res = Add(b, a)
  /\ op = "Mul" => res = Mul(b, a)

C5_Witness ==
  /\ op = "Add"
  /\ a.negative # b.negative
  /\ a.scale # b.scale
  /\ ~IsZero(res)

\* C6: a - a and a + (-a) are the canonical zero for every value a.
C6_SelfInverseIsZero == op \in {"SubSelf", "AddNeg"} => IsCanonicalZero(res)

\* C7: Mul returns exactly a * b; with both operands non-zero its scale is the
\* sum of the scales and it is negative iff exactly one operand is negative;
\* with a zero operand it returns the canonical zero.
C7_MulExact ==
  op = "Mul" =>
    /\ res.negative <=> (a.negative # b.negative /\ ~IsZero(a) /\ ~IsZero(b))
    /\ IF IsZero(a) \/ IsZero(b)
       THEN IsCanonicalZero(res)
       ELSE /\ res.scale = a.scale + b.scale
            /\ Num(res) = Num(a) * Num(b)

C7_Witness ==
  /\ op = "Mul"
  /\ a.negative
  /\ ~b.negative
  /\ a.scale > 0
  /\ b.scale > 0
  /\ Len(res.digits) > Len(a.digits)
  /\ res.negative

\* C7 as stated: for all operands, zero ones included, the scale of Mul(a, b)
\* is a.Scale() + b.Scale(), its value is a * b, it is negative iff exactly one
\* operand is negative and neither is zero, and a zero operand gives the
\* canonical zero.
C7_MulScaleIsSumForAll ==
  op = "Mul" =>
    /\ res.scale = a.scale + b.scale
    /\ Num(res) = Num(a) * Num(b)
    /\ res.negative <=> (a.negative # b.negative /\ ~IsZero(a) /\ ~IsZero(b))
    /\ (IsZero(a) \/ IsZero(b)) => IsCanonicalZero(res)

\* C8: Div returns the exact quotient rounded to the requested places under
\* the requested mode, with the sign of the quotient.
C8_DivRoundsExactQuotient ==
  (op = "Div" /\ err = "") =>
    Num(res) * Pow10(places)
      = (IF QuotNegative(a, b) THEN -1 ELSE 1) * RoundedQuotient(a, b, places, mode)
          * Pow10(res.scale)

\* C9: Div, DivInt and Mod return ErrDivisionByZero and no value whenever the
\* divisor is zero, whatever the dividend.
C9_DivisionByZero ==
  (op \in {"Div", "DivInt", "Mod"} /\ IsZero(b)) => (err = ErrDivisionByZero /\ res = Nil)

C9_Witness ==
  /\ op = "Div"
  /\ IsZero(b)
  /\ IsZero(a)
  /\ places > 0
  /\ err = ErrDivisionByZero

\* C10: when the exact quotient has no digit beyond the requested places, Div
\* renders as that quotient under every rounding mode (the rendering is taken
\* after Normalize, as TestBCDArithmetic takes it).
C10_TerminatingQuotientRenders ==
  (op = "Div" /\ err = "" /\ Terminates(a, b, places)) =>
    String(Normalize(res))
      = ExactString(QuotNegative(a, b), QuotNum(a, b, places) \div QuotDen(a, b), places)

(***************************************************************************)
(* Operands beyond the native range of longDivision: integers of more      *)
(* than NativeDigits digits, divided by one-digit and by long divisors.    *)
(***************************************************************************)
WideDividendStrings ==
  {sg \o d \o zeroChars(NativeDigits) :
     sg \in Signs, d \in {<<"1">>, <<"5">>, <<"1", "5">>, <<"2", "5">>, <<"3", "0">>}}

WideDivisorStrings ==
  {<<"5">>, <<"-", "5">>}
    \cup {sg \o d \o zeroChars(NativeDigits - 2) :
            sg \in Signs, d \in {<<"1", "2">>, <<"2", "5">>}}

WideDividends == {parseString(s).val : s \in WideDividendStrings}

WideDivisors == {parseString(s).val : s \in WideDivisorStrings}

InitWide ==
  /\ a \in WideDividends
  /\ b \in WideDivisors
  /\ c = Zero
  /\ op = "New"
  /\ res = Nil
  /\ cmp = 0
  /\ err = ""
  /\ places = 0
  /\ mode = RoundDown
  /\ fed = FALSE
  /\ total = Zero
  /\ exact = 0
  /\ n = 0
  /\ i64 = Int64(0)
  /\ str = <<>>
  /\ out = <<>>
  /\ heap = EmptyHeap
  /\ flt = [negative |-> FALSE, mantissa |-> 0, exponent |-> 0, finite |-> TRUE]
  /\ ratios = <<>>
  /\ parts = <<>>

NextWide ==
  \/ DoDivInt
  \/ DoMod

SpecWide == InitWide /\ [][NextWide]_vars

(***************************************************************************)
(* What DivInt and Mod should return: schoolbook division of the digit     *)
(* sequence of the dividend by the divisor, after cancelling the powers of *)
(* ten the two have in common.                                             *)
(***************************************************************************)
RECURSIVE lowZeros(_)
lowZeros(d) == IF d = <<>> \/ Head(d) # 0 THEN 0 ELSE 1 + lowZeros(Tail(d))

RECURSIVE dropDigits(_, _)
dropDigits(d, k) == IF k <= 0 \/ d = <<>> THEN d ELSE dropDigits(Tail(d), k - 1)

Min(i, j) == IF i < j THEN i ELSE j

\* <<quotient digits (little-endian), remainder>> of the digits d[1..i], below
\* which the quotient digits q are already known
RECURSIVE SchoolDiv(_, _, _, _, _)
SchoolDiv(d, i, divisor, rem, q) ==
  IF i < 1 THEN <<q, rem>>
  ELSE LET cur == rem * 10 + d[i]
       IN  SchoolDiv(d, i - 1, divisor, cur % divisor, <<cur \div divisor>> \o q)

\* the powers of ten common to the digit integers of x and y
CommonZeros(x, y) == Min(lowZeros(x.digits), lowZeros(y.digits))

\* |a| / |b| = (X * 10^b.scale) / (Y * 10^a.scale) for the digit integers X, Y
TruncDivision(x, y) ==
  LET k == CommonZeros(x, y)
      X == zeros(y.scale) \o dropDigits(x.digits, k)
      Y == digitsValue(dropDigits(y.digits, k)) * Pow10(x.scale)
  IN  SchoolDiv(X, Len(X), Y, 0, <<>>)

\* a digit sequence without high-order zeros, <<0>> for zero
RECURSIVE natDigits(_)
natDigits(d) ==
  IF d = <<>> THEN <<0>>
  ELSE IF Len(d) > 1 /\ d[Len(d)] = 0 THEN natDigits(SubSeq(d, 1, Len(d) - 1))
  ELSE d

\* the digits of |a/b| truncated to an integer
TruncQuotientDigits(x, y) == natDigits(TruncDivision(x, y)[1])

\* C11: for a non-zero divisor, DivInt returns an integer (scale 0) whose value
\* is the exact quotient a/b truncated toward zero.
C11_DivIntTruncates ==
  (op = "DivInt" /\ err = "") =>
    /\ res.scale = 0
    /\ natDigits(res.digits) = TruncQuotientDigits(a, b)
    /\ IsNegative(res) <=> (a.negative # b.negative /\ ~isZero(TruncQuotientDigits(a, b)))

\* C12: for a non-zero divisor, Mod returns the remainder of the truncating
\* division, a - trunc(a/b) * b: smaller in magnitude than b and, when not
\* zero, of the sign of the dividend a.
C12_ModIsTruncatedRemainder ==
  (op = "Mod" /\ err = "") =>
    Num(res) * Pow10(a.scale + b.scale)
      = (IF a.negative THEN -1 ELSE 1)
          * TruncDivision(a, b)[2] * Pow10(CommonZeros(a, b)) * Pow10(res.scale)

(***************************************************************************)
(* Rounding: x.Round(places, mode) on parsed values with up to MaxFrac     *)
(* fractional digits, and the rounding of the result once more.            *)
(***************************************************************************)
RoundIntParts == {<<"0">>, <<"1">>, <<"2">>, <<"9">>, <<"1", "0">>}

RoundFracDigits == {"0", "1", "5", "6"}

\* the digit strings of length at most k
RECURSIVE FracStrings(_)
FracStrings(k) ==
  IF k = 0 THEN {<<>>}
  ELSE FracStrings(k - 1)
         \cup {Append(f, d) : f \in {g \in FracStrings(k - 1) : Len(g) = k - 1},
                              d \in RoundFracDigits}

RoundStrings ==
  {sg \o i \o <<".">> \o f : sg \in Signs, i \in RoundIntParts, f \in FracStrings(MaxFrac)}

RoundInputs == {parseString(s).val : s \in RoundStrings}

InitRound ==
  /\ a \in RoundInputs
  /\ b = Zero
  /\ c = Zero
  /\ op = "New"
  /\ res = Nil
  /\ cmp = 0
  /\ err = ""
  /\ places = 0
  /\ mode = RoundDown
  /\ fed = FALSE
  /\ total = Zero
  /\ exact = 0
  /\ n = 0
  /\ i64 = Int64(0)
  /\ str = <<>>
  /\ out = <<>>
  /\ heap = EmptyHeap
  /\ flt = [negative |-> FALSE, mantissa |-> 0, exponent |-> 0, finite |-> TRUE]
  /\ ratios = <<>>
  /\ parts = <<>>

\* a.Round(s, m)
DoRound ==
  \E s \in -1..MaxPlaces, m \in RoundingMode :
    Call("Round", Zero, s, m, Round(a, s, m), 0, "")

\* r := a.Round(s, m); r.Round(s, m)
RoundAgain ==
  /\ op = "Round"
  /\ op' = "RoundAgain"
  /\ c' = Round(res, places, mode)
  /\ UNCHANGED <<a, b, res, cmp, err, places, mode, fed, total, exact, n, i64, str, out, heap, flt, ratios, parts>>

NextRound ==
  \/ DoRound
  \/ RoundAgain

SpecRound == InitRound /\ [][NextRound]_vars

(***************************************************************************)
(* What Round should return: the decision table on the rounding digit,     *)
(* on whether any digit beyond it is non-zero, on the parity of the        *)
(* retained digit and on the sign.                                         *)
(***************************************************************************)
\* the number of places Round rounds to
TargetPlaces(s) == IF s < 0 THEN 0 ELSE s

\* |x| in units of 10^-s, cut off: the retained digits
Retained(x, s) == digitsValue(x.digits) \div Pow10(x.scale - s)

\* the discarded digits, as an integer below 10^(x.scale - s)
Discarded(x, s) == digitsValue(x.digits) % Pow10(x.scale - s)

\* the first discarded digit
RoundingDigit(x, s) == Discarded(x, s) \div Pow10(x.scale - s - 1)

\* some digit after the rounding digit is non-zero
NonzeroBeyond(x, s) == Discarded(x, s) % Pow10(x.scale - s - 1) # 0

TableSaysUp(x, s, m) ==
  LET d == RoundingDigit(x, s)
      beyond == NonzeroBeyond(x, s)
      odd == Retained(x, s) % 2 = 1
      away == d > 0 \/ beyond
  IN  CASE m = RoundDown -> FALSE
        [] m = RoundUp -> away
        [] m = RoundHalfUp -> d >= 5
        [] m = RoundHalfDown -> d > 5 \/ (d = 5 /\ beyond)
        [] m = RoundHalfEven -> d > 5 \/ (d = 5 /\ beyond) \/ (d = 5 /\ ~beyond /\ odd)
        [] m = RoundCeiling -> ~x.negative /\ away
        [] m = RoundFloor -> x.negative /\ away

\* |Round(x, s, m)| in units of 10^-s
RoundedUnits(x, s, m) == Retained(x, s) + (IF TableSaysUp(x, s, m) THEN 1 ELSE 0)

\* r has the value sign * units * 10^-s
HasValue(r, negative, units, s) ==
  Num(r) * Pow10(s) = (IF negative THEN -1 ELSE 1) * units * Pow10(r.scale)

\* C13: for x with more than s fractional digits, Round keeps the digits of x
\* down to position s and adds one unit there exactly when the decision table
\* says so, "non-zero beyond" meaning any discarded digit after the rounding one.
C13_RoundFollowsTable ==
  (op = "Round" /\ a.scale > TargetPlaces(places)) =>
    HasValue(res, a.negative, RoundedUnits(a, TargetPlaces(places), mode), TargetPlaces(places))

\* |x| rounded to the nearest multiple of 10^-s, a tie going to the neighbour
\* whose last digit is even; in units of 10^-s
NearestEvenUnits(x, s) ==
  LET q == Retained(x, s)
      r == Discarded(x, s)
      d == Pow10(x.scale - s)
  IN  IF 2 * r > d \/ (2 * r = d /\ q % 2 = 1) THEN q + 1 ELSE q

\* C14: Round with RoundHalfEven returns the nearest multiple of 10^-s, and for
\* a value exactly halfway between two of them the one whose digit at position
\* s is even.
C14_HalfEvenNearestTiesToEven ==
  (op = "Round" /\ mode = RoundHalfEven /\ a.scale > TargetPlaces(places)) =>
    HasValue(res, a.negative, NearestEvenUnits(a, TargetPlaces(places)), TargetPlaces(places))

\* C15: rounding a rounded value again to the same places under the same mode
\* returns it unchanged, for every value, every places (negative ones counting
\* as 0) and every mode.
C15_RoundIdempotent == op = "RoundAgain" => c = res

C15_Witness ==
  /\ op = "RoundAgain"
  /\ a.negative
  /\ a.scale > TargetPlaces(places)
  /\ TargetPlaces(places) > 0
  /\ mode = RoundHalfEven
  /\ TableSaysUp(a, TargetPlaces(places), mode)
  /\ res.scale = places
  /\ res.negative
  /\ c = res

(***************************************************************************)
(* Integers: New of an integer, and ToInt64 of a parsed value or of the    *)
(* value New made.                                                         *)
(***************************************************************************)
RECURSIVE nineChars(_)
nineChars(k) == IF k <= 0 THEN <<>> ELSE Append(nineChars(k - 1), "9")

\* 2^63 - 1 and 2^63 in decimal
MaxInt64Chars ==
  <<"9", "2", "2", "3", "3", "7", "2", "0", "3", "6", "8", "5", "4", "7", "7", "5", "8", "0", "7">>

MinInt64Chars ==
  <<"9", "2", "2", "3", "3", "7", "2", "0", "3", "6", "8", "5", "4", "7", "7", "5", "8", "0", "8">>

IntegerParts ==
  {<<"0">>, <<"7">>, <<"1", "0">>, <<"1", "2", "0">>, <<"1", "2", "3">>,
   nineChars(18), <<"1">> \o zeroChars(18), MaxInt64Chars, MinInt64Chars,
   <<"1">> \o zeroChars(19)}

FractionParts == {<<>>, <<".", "5">>, <<".", "4", "5">>, <<".", "9", "9">>}

IntegerStrings == {sg \o i \o f : sg \in Signs, i \in IntegerParts, f \in FractionParts}

IntegerInputs == {parseString(s).val : s \in IntegerStrings}

\* the integers handed to New: the extremes of the 8, 16, 32 and 64 bit types
Int64Values ==
  {Int64(0), Int64(1), Int64(127), Int64(255), Int64(32767), Int64(65535),
   Int64(2147483647), <<Word - 1, Word - 1, 0, 0>>, MaxInt64,
   Neg64(Int64(1)), Neg64(Int64(128)), Neg64(Int64(32768)),
   Neg64(<<0, Word \div 2, 0, 0>>), MinInt64}

InitInt ==
  /\ a \in IntegerInputs
  /\ b = Zero
  /\ c = Zero
  /\ op = "New"
  /\ res = Nil
  /\ cmp = 0
  /\ err = ""
  /\ places = 0
  /\ mode = RoundDown
  /\ fed = FALSE
  /\ total = Zero
  /\ exact = 0
  /\ n = 0
  /\ i64 = Int64(0)
  /\ str = <<>>
  /\ out = <<>>
  /\ heap = EmptyHeap
  /\ flt = [negative |-> FALSE, mantissa |-> 0, exponent |-> 0, finite |-> TRUE]
  /\ ratios = <<>>
  /\ parts = <<>>

\* a, err := New(v) for a signed or an unsigned integer v
DoNewInt ==
  /\ op = "New"
  /\ \E v \in Int64Values, unsigned \in BOOLEAN :
       LET r == NewInt(v, unsigned)
       IN  /\ op' = IF unsigned THEN "NewUint" ELSE "NewInt"
           /\ i64' = v
           /\ res' = r.val
           /\ err' = r.err
           /\ a' = IF r.err = "" THEN r.val ELSE a
  /\ UNCHANGED <<b, c, cmp, places, mode, fed, total, exact, n, str, out, heap, flt, ratios, parts>>

\* a.ToInt64()
DoToInt64 ==
  /\ op \in {"New", "NewInt", "NewUint"}
  /\ err = ""
  /\ op' = "ToInt64"
  /\ i64' = ToInt64(a).val
  /\ err' = ToInt64(a).err
  /\ res' = Nil
  /\ UNCHANGED <<a, b, c, cmp, places, mode, fed, total, exact, n, str, out, heap, flt, ratios, parts>>

NextInt ==
  \/ DoNewInt
  \/ DoToInt64

SpecInt == InitInt /\ [][NextInt]_vars

(***************************************************************************)
(* What the integer conversions should return.                             *)
(***************************************************************************)
\* the 64 bits of the natural number with the decimal digits d: Horner's rule
\* from the most significant digit d[i] down, acc being the digits above
RECURSIVE horner64(_, _, _)
horner64(d, i, acc) ==
  IF i < 1 THEN acc
  ELSE LET next == Add64(Int64(d[i]), Mul64(acc, 10))
       IN  IF IsZero64(next) THEN horner64(d, i - 1, Int64(0))
           ELSE horner64(d, i - 1, next)

digitsValue64(d) == horner64(d, Len(d), Int64(0))

\* the decimal digits of v read as an unsigned integer, <<0>> for zero
RECURSIVE Decimal64(_)
Decimal64(v) ==
  IF IsZero64(Div64(v, 10)) THEN <<Mod64(v, 10)>>
  ELSE <<Mod64(v, 10)>> \o Decimal64(Div64(v, 10))

\* |v| as an unsigned integer
Magnitude64(v) == IF IsNeg64(v) THEN Neg64(v) ELSE v

\* d1 <= d2 for natural numbers given by digits without high-order zeros
RECURSIVE natLeq(_, _)
natLeq(d1, d2) ==
  IF Len(d1) # Len(d2) THEN Len(d1) < Len(d2)
  ELSE IF d1 = <<>> THEN TRUE
  ELSE IF d1[Len(d1)] # d2[Len(d2)] THEN d1[Len(d1)] < d2[Len(d2)]
  ELSE natLeq(SubSeq(d1, 1, Len(d1) - 1), SubSeq(d2, 1, Len(d2) - 1))

\* the digits of the integer part of |x|
IntegerPartDigits(x) == natDigits(dropDigits(x.digits, x.scale))

\* the integer part of x lies in -2^63 .. 2^63 - 1
FitsInt64(x) ==
  natLeq(IntegerPartDigits(x),
         Decimal64(IF x.negative THEN MinInt64 ELSE MaxInt64))

\* the int64 that is the integer part of x, for an x that fits
IntegerPart64(x) ==
  IF x.negative THEN Neg64(digitsValue64(IntegerPartDigits(x)))
  ELSE digitsValue64(IntegerPartDigits(x))

\* C16: when ToInt64 returns without error, the integer returned is the
\* integer part of x, truncated toward zero.
C16_ToInt64Truncates ==
  (op = "ToInt64" /\ err = "") => (FitsInt64(a) /\ i64 = IntegerPart64(a))

\* C17: ToInt64 returns ErrOverflow for every value whose integer part lies
\* outside -2^63 .. 2^63 - 1, and an integer it returns never has the sign
\* opposite to the value's.
C17_ToInt64OverflowDetected ==
  op = "ToInt64" =>
    /\ ~FitsInt64(a) => err = ErrOverflow
    /\ err = "" => (IsZero64(i64) \/ (IsNeg64(i64) <=> a.negative))

\* the decimal rendering of the int64 v
Int64String(v) ==
  (IF IsNeg64(v) THEN <<"-">> ELSE <<>>) \o digitChars(Reverse(Decimal64(Magnitude64(v))))

\* C18: for an integer n within -2^63 .. 2^63 - 1, of a signed or an unsigned
\* type, New(n) succeeds and returns the value n: scale 0, the decimal digits
\* of |n|, negative iff n < 0, rendered by String as n is written.
C18_NewIntegerExact ==
  (op \in {"NewInt", "NewUint"} /\ ~(op = "NewUint" /\ IsNeg64(i64))) =>
    /\ err = ""
    /\ res # Nil
    /\ res.scale = 0
    /\ res.digits = Decimal64(Magnitude64(i64))
    /\ res.negative <=> IsNeg64(i64)
    /\ String(res) = Int64String(i64)

(***************************************************************************)
(* Strings: New(str), the rendering of the value and its parsing again.    *)
(***************************************************************************)
\* a digit that is trimmed, two that are not, the point, the signs, a space
\* and a character that is none of these
ParseChars == {"0", "1", "5", ".", "-", "+", " ", "x"}

\* the strings over ParseChars of length at most k
RECURSIVE StringsUpTo(_)
StringsUpTo(k) ==
  IF k = 0 THEN {<<>>}
  ELSE StringsUpTo(k - 1)
         \cup {Append(s, ch) : s \in {t \in StringsUpTo(k - 1) : Len(t) = k - 1},
                               ch \in ParseChars}

InitParse ==
  /\ str \in StringsUpTo(MaxLen)
  /\ out = <<>>
  /\ heap = EmptyHeap
  /\ flt = [negative |-> FALSE, mantissa |-> 0, exponent |-> 0, finite |-> TRUE]
  /\ ratios = <<>>
  /\ parts = <<>>
  /\ a = Zero
  /\ b = Zero
  /\ c = Zero
  /\ op = "Input"
  /\ res = Nil
  /\ cmp = 0
  /\ err = ""
  /\ places = 0
  /\ mode = RoundDown
  /\ fed = FALSE
  /\ total = Zero
  /\ exact = 0
  /\ n = 0
  /\ i64 = Int64(0)

\* a, err := New(str)
DoNewString ==
  /\ op = "Input"
  /\ op' = "NewString"
  /\ res' = parseString(str).val
  /\ err' = parseString(str).err
  /\ a' = IF parseString(str).err = "" THEN parseString(str).val ELSE a
  /\ UNCHANGED <<b, c, cmp, places, mode, fed, total, exact, n, i64, str, out, heap, flt, ratios, parts>>

\* out := a.String()
DoString ==
  /\ op = "NewString"
  /\ err = ""
  /\ op' = "String"
  /\ out' = String(a)
  /\ UNCHANGED <<a, b, c, res, cmp, err, places, mode, fed, total, exact, n, i64, str, heap, flt, ratios, parts>>

\* b, err := New(out)
DoReparse ==
  /\ op = "String"
  /\ op' = "Reparse"
  /\ res' = parseString(out).val
  /\ err' = parseString(out).err
  /\ b' = IF parseString(out).err = "" THEN parseString(out).val ELSE b
  /\ UNCHANGED <<a, c, cmp, places, mode, fed, total, exact, n, i64, str, out, heap, flt, ratios, parts>>

NextParse ==
  \/ DoNewString
  \/ DoString
  \/ DoReparse

SpecParse == InitParse /\ [][NextParse]_vars

(***************************************************************************)
(* What New(str) should accept.                                            *)
(***************************************************************************)
\* s without the spaces around it
Trimmed(s) ==
  LET inked == {i \in 1..Len(s) : s[i] # " "}
  IN  IF inked = {} THEN <<>>
      ELSE SubSeq(s, CHOOSE i \in inked : \A j \in inked : i <= j,
                     CHOOSE i \in inked : \A j \in inked : i >= j)

\* t without one leading sign
Unsigned(t) == IF t # <<>> /\ Head(t) \in {"+", "-"} THEN Tail(t) ELSE t

\* digits only, with at most one point, after the trimming and the sign
WellFormed(s) ==
  LET u == Unsigned(Trimmed(s))
  IN  /\ \A i \in 1..Len(u) : IsDigitChar(u[i]) \/ u[i] = "."
      /\ Cardinality({i \in 1..Len(u) : u[i] = "."}) <= 1

\* C19: New(str), for a string without exponent, succeeds iff str, trimmed of
\* the spaces around it and of one leading sign, holds only digits and at most
\* one point; the empty string gives zero; every other string gives
\* ErrInvalidFormat and no value.
C19_ParseAcceptsWellFormed ==
  op = "NewString" =>
    /\ err = "" <=> WellFormed(str)
    /\ err = "" => res # Nil
    /\ err # "" => (err = ErrInvalidFormat /\ res = Nil)
    /\ Trimmed(str) = <<>> => (err = "" /\ res = Zero)

C19_Witness ==
  /\ op = "NewString"
  /\ err = ""
  /\ Len(str) = MaxLen
  /\ str[1] = " "
  /\ str[2] = "-"
  /\ str[3] = "."
  /\ res.negative
  /\ res.scale = 1

\* C20: parsing the rendering of a parsed value gives the same value back
\* (after Normalize), and the rendering is the decimal notation of the value:
\* a '-' only for a negative non-zero value, no redundant leading zero, the
\* point after (digit count - scale) digits, "0." and padding zeros below 1.
C20_RenderParseRoundTrip ==
  op = "Reparse" =>
    /\ err = ""
    /\ Normalize(b) = Normalize(a)
    /\ out = ExactString(a.negative, digitsValue(a.digits), a.scale)

C20_Witness ==
  /\ op = "Reparse"
  /\ err = ""
  /\ a.negative
  /\ a.scale = 2
  /\ Len(a.digits) = 1
  /\ out = <<"-", "0", ".", "0", "5">>
  /\ b = a

(***************************************************************************)
(* Calls on stored values: a, b and res are pointers into the heap.  A     *)
(* returned pointer becomes, once, the receiver or the argument of the     *)
(* next call.                                                              *)
(***************************************************************************)
HeapStrings ==
  {<<"0">>, <<"-", "1">>, <<"0", ".", "5">>, <<"-", "0", ".", "0", "5">>,
   <<"1", ".", "5", "0">>}

InitHeap ==
  /\ \E s \in HeapStrings, t \in HeapStrings :
       heap = newBCD(newBCD(EmptyHeap, parseString(s).val).h, parseString(t).val).h
  /\ a = 1
  /\ b \in {1, 2}
  /\ c = Zero
  /\ op = "New"
  /\ res = 0
  /\ cmp = 0
  /\ err = ""
  /\ places = 0
  /\ mode = RoundDown
  /\ fed = FALSE
  /\ total = Zero
  /\ exact = 0
  /\ n = 0
  /\ i64 = Int64(0)
  /\ str = <<>>
  /\ out = <<>>
  /\ flt = [negative |-> FALSE, mantissa |-> 0, exponent |-> 0, finite |-> TRUE]
  /\ ratios = <<>>
  /\ parts = <<>>

CallAt(name, r, s, m) ==
  /\ op \in {"New", "Feed"}
  /\ op' = name
  /\ heap' = r.h
  /\ res' = r.p
  /\ places' = s
  /\ mode' = m
  /\ UNCHANGED <<a, b, c, cmp, err, fed, total, exact, n, i64, str, out, flt, ratios, parts>>

FeedAt ==
  /\ ~fed
  /\ res # 0
  /\ Len(digitsAt(heap, res)) <= MaxDigits
  /\ valueAt(heap, res).scale <= MaxScale
  /\ \/ a' = res /\ b' = b
     \/ a' = a /\ b' = res
  /\ fed' = TRUE
  /\ op' = "Feed"
  /\ res' = 0
  /\ UNCHANGED <<c, cmp, err, places, mode, total, exact, n, i64, str, out, heap, flt, ratios, parts>>

NextHeap ==
  \/ CallAt("Copy", CopyAt(heap, a), 0, RoundDown)
  \/ CallAt("Abs", AbsAt(heap, a), 0, RoundDown)
  \/ CallAt("Neg", NegAt(heap, a), 0, RoundDown)
  \/ CallAt("Normalize", NormalizeAt(heap, a), 0, RoundDown)
  \/ CallAt("Cmp", CmpAt(heap, a, b), 0, RoundDown)
  \/ CallAt("Add", AddAt(heap, a, b), 0, RoundDown)
  \/ CallAt("Sub", SubAt(heap, a, b), 0, RoundDown)
  \/ CallAt("Mul", MulAt(heap, a, b), 0, RoundDown)
  \/ \E s \in -1..MaxPlaces, m \in RoundingMode : CallAt("Round", RoundAt(heap, a, s, m), s, m)
  \/ \E s \in 0..MaxPlaces, m \in RoundingMode :
       /\ Evaluable(valueAt(heap, a), valueAt(heap, b), s + 1)
       /\ CallAt("Div", DivAt(heap, a, b, s, m), s, m)
  \/ /\ Evaluable(valueAt(heap, a), valueAt(heap, b), 0)
     /\ CallAt("DivInt", DivIntAt(heap, a, b), 0, RoundDown)
  \/ /\ Evaluable(valueAt(heap, a), valueAt(heap, b), 0)
     /\ CallAt("Mod", ModAt(heap, a, b), 0, RoundDown)
  \* ToInt64 reads the digits of b.Round(0, RoundDown) and returns no BCD
  \/ CallAt("ToInt64", [h |-> RoundAt(heap, a, 0, RoundDown).h, p |-> 0], 0, RoundDown)
  \* String reads the digits and makes no BCD
  \/ CallAt("String", [h |-> heap, p |-> 0], 0, RoundDown)
  \/ FeedAt

SpecHeap == InitHeap /\ [][NextHeap]_vars

\* C21: a call of a public operation leaves every struct and every backing
\* array that existed before it as it was (so the receiver and the argument
\* keep their digits, scale and sign), and the value it returns is a new
\* struct over a backing array that did not exist before the call
C21_InputsUntouched ==
  [][op' \notin {"New", "Feed"} =>
       /\ \A p \in 1..Len(heap.objs) : heap'.objs[p] = heap.objs[p]
       /\ \A i \in 1..Len(heap.arrs) : heap'.arrs[i] = heap.arrs[i]
       /\ res' # 0 => /\ res' > Len(heap.objs)
                      /\ heap'.objs[res'].arr > Len(heap.arrs)]_vars

\* Abs has returned a positive value for a negative receiver that an earlier
\* call returned
C21_Witness ==
  /\ op = "Abs"
  /\ fed
  /\ a > 2
  /\ res # 0
  /\ valueAt(heap, a).negative
  /\ ~valueAt(heap, res).negative
  /\ valueAt(heap, res).digits = valueAt(heap, a).digits

(***************************************************************************)
(* New of a float with a scale and a rounding mode.                        *)
(***************************************************************************)
Floats ==
  [negative : BOOLEAN, mantissa : 0..MaxMantissa, exponent : 0..MaxExponent, finite : {TRUE}]
    \cup {[negative |-> FALSE, mantissa |-> 0, exponent |-> 0, finite |-> FALSE]}

InitFloat ==
  /\ flt \in Floats
  /\ a = Zero
  /\ b = Zero
  /\ c = Zero
  /\ op = "Input"
  /\ res = Nil
  /\ cmp = 0
  /\ err = ""
  /\ places = 0
  /\ mode = RoundDown
  /\ fed = FALSE
  /\ total = Zero
  /\ exact = 0
  /\ n = 0
  /\ i64 = Int64(0)
  /\ str = <<>>
  /\ out = <<>>
  /\ heap = EmptyHeap
  /\ ratios = <<>>
  /\ parts = <<>>

DoNewFloat ==
  \E s \in 0..MaxPlaces, m \in RoundingMode :
    /\ op = "Input"
    /\ op' = "NewFloat"
    /\ places' = s
    /\ mode' = m
    /\ res' = NewFloat(flt, s, m).val
    /\ err' = NewFloat(flt, s, m).err
    /\ UNCHANGED <<a, b, c, cmp, fed, total, exact, n, i64, str, out, heap, flt, ratios, parts>>

NextFloat == DoNewFloat

SpecFloat == InitFloat /\ [][NextFloat]_vars

\* the decimal expansion of a finite float: mantissa * 5^exponent in units of
\* 10^-exponent
Expansion(x) ==
  LET units == x.mantissa * Pow5(x.exponent)
  IN  BCD(IF units = 0 THEN <<0>> ELSE valueDigits(units), x.exponent, x.negative)

\* C22: New of a finite float with WithScale(s) and WithRounding(m) is the
\* float's decimal expansion cut to s fractional digits under mode m (so under
\* RoundDown the retained digits are those of the expansion); an expansion of
\* at most s fractional digits is returned as it is.
C22_FloatRoundedByMode ==
  (op = "NewFloat" /\ flt.finite) =>
    /\ err = ""
    /\ HasValue(res, flt.negative,
                IF flt.exponent > places
                THEN RoundedUnits(Expansion(flt), places, mode)
                ELSE digitsValue(Expansion(flt).digits) * Pow10(places - flt.exponent),
                places)

(***************************************************************************)
(* Amount: a BCD amount of a currency with decimalPlaces minor-unit places. *)
(* The int64 arithmetic of Allocate is done on integers; the amounts of    *)
(* the model are far from the int64 range.                                 *)
(***************************************************************************)
\* int64(k)
ToWords(k) == IF k < 0 THEN Neg64(Int64(-k)) ELSE Int64(k)

\* the integer an int64 of small magnitude stands for
FromWords(v) ==
  IF IsNeg64(v) THEN -(Neg64(v)[1] + Word * Neg64(v)[2]) ELSE v[1] + Word * v[2]

\* Go's integer division truncates towards zero
quo(x, y) == IF x < 0 THEN -((-x) \div y) ELSE x \div y

\* multiplier := fromInt64(1); for range decimalPlaces { multiplier = multiplier.Mul(fromInt64(10)) }
RECURSIVE tenTimes(_, _)
tenTimes(multiplier, k) ==
  IF k <= 0 THEN multiplier ELSE tenTimes(Mul(multiplier, fromInt64(Int64(10))), k - 1)

\* amount.Round(info.DecimalPlaces, RoundHalfEven) of the value New returned
roundedAmount(r, decimalPlaces) ==
  IF r.err # "" THEN Fail(ErrInvalidAmount) ELSE Ok(Round(r.val, decimalPlaces, RoundHalfEven))

\* NewAmount of a string
NewAmount(text, decimalPlaces) == roundedAmount(parseString(text), decimalPlaces)

ToMinorUnits(amount, decimalPlaces) ==
  IF decimalPlaces = 0 THEN ToInt64(amount)
  ELSE ToInt64(Mul(amount, tenTimes(fromInt64(Int64(1)), decimalPlaces)))

NewAmountMinor(units, decimalPlaces) ==
  IF decimalPlaces > 0
  THEN Div(fromInt64(ToWords(units)), tenTimes(fromInt64(Int64(1)), decimalPlaces),
           decimalPlaces, RoundHalfEven)
  ELSE Ok(fromInt64(ToWords(units)))

RECURSIVE sumRatios(_)
sumRatios(rs) == IF rs = <<>> THEN 0 ELSE Head(rs) + sumRatios(Tail(rs))

\* the selection sort of the indices by ratio, descending
RECURSIVE sortIndices(_, _, _, _)
sortIndices(indices, rs, i, j) ==
  IF i >= Len(indices) THEN indices
  ELSE IF j > Len(indices) THEN sortIndices(indices, rs, i + 1, i + 2)
  ELSE IF rs[indices[j]] > rs[indices[i]]
       THEN sortIndices([indices EXCEPT ![i] = indices[j], ![j] = indices[i]], rs, i, j + 1)
       ELSE sortIndices(indices, rs, i, j + 1)

\* for i := 0; i < int(remainder); i++ { allocated[indices[i%len(indices)]] += direction }
RECURSIVE distribute(_, _, _, _, _)
distribute(allocated, indices, direction, i, remainder) ==
  IF i >= remainder THEN allocated
  ELSE distribute([allocated EXCEPT ![indices[(i % Len(indices)) + 1]] = @ + direction],
                  indices, direction, i + 1, remainder)

\* Allocate once the minor units mu = (int64, error) are known
allocateUnits(mu, decimalPlaces, rs) ==
  LET totalRatio == sumRatios(rs)
      minorUnits == FromWords(mu.val)
      shares == [i \in 1..Len(rs) |-> quo(minorUnits * rs[i], totalRatio)]
      remainder == minorUnits - sumRatios(shares)
      indices == sortIndices([i \in 1..Len(rs) |-> i], rs, 1, 2)
      allocated == IF remainder = 0 THEN shares
                   ELSE distribute(shares, indices, IF remainder < 0 THEN -1 ELSE 1, 0,
                                   IF remainder < 0 THEN -remainder ELSE remainder)
  IN  IF mu.err # "" THEN Fail(mu.err)
      ELSE Ok([i \in 1..Len(rs) |-> NewAmountMinor(allocated[i], decimalPlaces).val])

\* a sequence of amounts, or an error
Allocate(amount, decimalPlaces, rs) ==
  IF Len(rs) = 0 \/ (\E i \in 1..Len(rs) : rs[i] < 0) \/ sumRatios(rs) = 0
  THEN Fail(ErrInvalidAmount)
  ELSE allocateUnits(ToMinorUnits(amount, decimalPlaces), decimalPlaces, rs)

Split(amount, decimalPlaces, k) ==
  IF k <= 0 THEN Fail(ErrInvalidAmount) ELSE Allocate(amount, decimalPlaces, [i \in 1..k |-> 1])

AmountStrings ==
  {s \o i \o d : s \in Signs, i \in {<<"0">>, <<"1">>, <<"1", "0">>},
                 d \in {<<>>, <<".", "5", "0">>, <<".", "0", "5">>, <<".", "3", "4">>}}

\* the decimal places of USD and of JPY
DecimalPlaces == {0, 2}

RatioLists ==
  UNION {[1..k -> 0..MaxRatio] : k \in 0..MaxParts}

InitAmount ==
  /\ n \in DecimalPlaces
  /\ \E s \in AmountStrings : a = NewAmount(s, n).val
  /\ b = Zero
  /\ c = Zero
  /\ op = "NewAmount"
  /\ res = Nil
  /\ cmp = 0
  /\ err = ""
  /\ places = 0
  /\ mode = RoundDown
  /\ fed = FALSE
  /\ total = Zero
  /\ exact = 0
  /\ i64 = Int64(0)
  /\ str = <<>>
  /\ out = <<>>
  /\ heap = EmptyHeap
  /\ flt = [negative |-> FALSE, mantissa |-> 0, exponent |-> 0, finite |-> TRUE]
  /\ ratios = <<>>
  /\ parts = <<>>

DoAllocate ==
  \E rs \in RatioLists :
    /\ op = "NewAmount"
    /\ op' = "Allocate"
    /\ ratios' = rs
    /\ parts' = Allocate(a, n, rs).val
    /\ err' = Allocate(a, n, rs).err
    /\ UNCHANGED <<a, b, c, res, cmp, places, mode, fed, total, exact, n, i64, str, out, heap, flt>>

DoSplit ==
  \E k \in 0..MaxParts :
    /\ op = "NewAmount"
    /\ op' = "Split"
    /\ ratios' = [i \in 1..k |-> 1]
    /\ parts' = Split(a, n, k).val
    /\ err' = Split(a, n, k).err
    /\ UNCHANGED <<a, b, c, res, cmp, places, mode, fed, total, exact, n, i64, str, out, heap, flt>>

NextAmount == DoAllocate \/ DoSplit

SpecAmount == InitAmount /\ [][NextAmount]_vars

\* the sum of the parts in units of 10^-MaxScale
RECURSIVE SumUnits(_)
SumUnits(ps) == IF ps = <<>> THEN 0 ELSE Units(Head(ps)) + SumUnits(Tail(ps))

\* the ratio list is one Allocate accepts
Accepted(rs) == Len(rs) > 0 /\ sumRatios(rs) > 0

\* C23: for every amount and every accepted ratio list (for Split: n > 0 equal
\* ratios), Allocate and Split succeed and the parts they return sum exactly
\* to the amount.
C23_PartsSumToAmount ==
  (op \in {"Allocate", "Split"} /\ Accepted(ratios)) =>
    /\ err = ""
    /\ SumUnits(parts) = Units(a)

(***************************************************************************)
(* Representation of the values the operations return.                     *)
(***************************************************************************)
\* C24: a value returned by a public operation, after any sequence of
\* operations, has its sign flag false whenever all its digits are zero.
C24_NoNegativeZero ==
  (op \notin {"New", "Feed", "Cmp"} /\ res # Nil) => ~(isZero(res.digits) /\ res.negative)

\* the digit sequence is non-empty, of digits 0..9, with a non-zero digit at
\* its most significant end
Canonical(x) ==
  /\ Len(x.digits) > 0
  /\ \A i \in 1..Len(x.digits) : x.digits[i] \in 0..9
  /\ x.digits[Len(x.digits)] # 0

\* C25: a value returned by a public constructor or operation, after any
\* sequence of operations, is the canonical zero or has a non-empty sequence
\* of digits 0..9 whose most significant digit is not zero.
C25_CanonicalDigits ==
  (op \notin {"Input", "Feed", "Cmp", "ToInt64"} /\ res # Nil) =>
    (IsCanonicalZero(res) \/ Canonical(res))

\* C26: when Round must discard at least as many digits as x has (|x| is
\* below one unit of the target scale s), the result is one unit of that
\* scale with x's sign if the decision table of the general case says "up" for
\* x, s and the mode, and the canonical zero otherwise.
C26_SmallValueRoundsToZeroOrUnit ==
  (op = "Round" /\ a.scale - TargetPlaces(places) >= Len(a.digits)) =>
    IF TableSaysUp(a, TargetPlaces(places), mode)
    THEN /\ HasValue(res, a.negative, 1, TargetPlaces(places))
         /\ res.negative = a.negative
         /\ res.scale = TargetPlaces(places)
    ELSE IsCanonicalZero(res)

(***************************************************************************)
(* Integer division of wide operands.                                      *)
(***************************************************************************)
\* the integer of the digits of x, as divideWithRemainder hands it over
AsInteger(x) == BCD(x.digits, 0, x.negative)

\* C27: for integers a >= 0 and b > 0, divideIntegers returns the quotient and
\* the remainder of the Euclidean division (a = q*b + r, 0 <= r < b), which
\* are those schoolbook division yields, whichever of the single-digit, native
\* and fallback paths is taken.
C27_DivideIntegersExact ==
  (op \in {"DivInt", "Mod"} /\ a.scale = 0 /\ b.scale = 0 /\ ~IsZero(b)) =>
    /\ natDigits(divideIntegers(AsInteger(a), AsInteger(b))[1].digits)
         = TruncQuotientDigits(a, b)
    /\ natDigits(divideIntegers(AsInteger(a), AsInteger(b))[2].digits)
         = natDigits(zeros(CommonZeros(a, b)) \o valueDigits(TruncDivision(a, b)[2]))

\* the iterations of the fallback loop of longDivision: each one prepends one
\* multiplier to quotientDigits
Iterations(dividend, divisor) == Len(fallbackLoop(<<>>, Copy(dividend), divisor)[1])

\* C28: when longDivision takes the manual fallback, its loop runs at most
\* once per digit of the dividend.
C28_FallbackStepsBoundedByDigits ==
  (/\ op \in {"DivInt", "Mod"}
   /\ a.scale = 0 /\ b.scale = 0
   /\ Len(b.digits) > 1
   /\ Len(a.digits) > NativeDigits) =>
    Iterations(AsInteger(a), AsInteger(b)) <= Len(a.digits)

(***************************************************************************)
(* ToInt64 of values within the int64 range.                               *)
(***************************************************************************)
\* C29: for a value whose integer part lies in -2^63 .. 2^63 - 1, a value
\* New made of an int64 included, ToInt64 returns without an error.
C29_NoSpuriousOverflow ==
  (op = "ToInt64" /\ FitsInt64(a)) => err = ""

(***************************************************************************)
(* Alignment.                                                              *)
(***************************************************************************)
\* C30: alignDecimals returns two values of the same scale and of the same
\* number of digits, each with the value of its operand.
C30_AlignedSameScaleAndLength ==
  op = "Cmp" =>
    /\ alignDecimals(a, b)[1].scale = alignDecimals(a, b)[2].scale
    /\ Len(alignDecimals(a, b)[1].digits) = Len(alignDecimals(a, b)[2].digits)
    /\ ExactCmp(alignDecimals(a, b)[1], a) = 0
    /\ ExactCmp(alignDecimals(a, b)[2], b) = 0

====
